---- MODULE Spec2Model ----
(***************************************************************************)
(* A model of the warp request multiplexer (package warp).                 *)
(*                                                                         *)
(* Strings are sequences of one-character strings (runes), so that the     *)
(* matcher can index them as the Go code indexes []rune.  A ServeMux is    *)
(* the pair (routes, anyHosts); routes maps a pattern key to the ordered   *)
(* list of routes registered under it.                                     *)
(***************************************************************************)
EXTENDS Integers, Sequences, FiniteSets, TLC

VARIABLES
    routes,     \* mux.routes: pattern -> sequence of Route
    anyHosts,   \* mux.anyHosts
    op,         \* name of the last call made on the mux ("new" after NewServeMux)
    args,       \* arguments of the last call
    out,        \* outcome of the last call
    mu,         \* mux.mu: the goroutine holding the write lock, those holding read locks
    pc,         \* where each goroutine is in the call it makes
    loc         \* the arguments and local variables of each goroutine's call

vars == <<routes, anyHosts, op, args, out, mu, pc, loc>>

(***************************************************************************)
(* Bounds of the model.                                                    *)
(***************************************************************************)
\* number of successful registrations made on one mux
MaxRoutes == 2

(***************************************************************************)
(* Runes and strings.                                                      *)
(***************************************************************************)
\* the zero value rune captureName returns when no rune follows the name
ZeroRune == "NUL"

\* strings.ToUpper on one rune, for the letters the model's method names use
UpperRune(r) ==
    CASE r = "a" -> "A" [] r = "c" -> "C" [] r = "e" -> "E" [] r = "g" -> "G"
      [] r = "n" -> "N" [] r = "o" -> "O" [] r = "p" -> "P" [] r = "s" -> "S"
      [] r = "t" -> "T" [] r = "y" -> "Y"
      [] OTHER -> r

\* strings.ToUpper
ToUpper(s) == [i \in 1..Len(s) |-> UpperRune(s[i])]

\* index of the first "/" of s (1-based), 0 if there is none: strings.Index(s, "/") + 1
RECURSIVE IndexSlashFrom(_, _)
IndexSlashFrom(s, i) ==
    IF i > Len(s) THEN 0
    ELSE IF s[i] = "/" THEN i
    ELSE IndexSlashFrom(s, i + 1)

IndexSlash(s) == IndexSlashFrom(s, 1)

\* contains returns true if the slice contains the value
contains(slice, value) == \E i \in 1..Len(slice) : slice[i] = value

(***************************************************************************)
(* Capture parameters (url.Values): a function from a name to the sequence *)
(* of the values added under it.  A nil map and an empty map both read as  *)
(* the function with the empty domain.                                     *)
(***************************************************************************)
NoParams == <<>>

\* url.Values.Set in the place of Add: the value replaces those of the key
ParamsSet(params, key, value) ==
    [k \in (DOMAIN params) \cup {key} |->
        IF k = key THEN <<value>> ELSE params[k]]

\* url.Values.Add
ParamsAdd(params, key, value) ==
    IF key \in DOMAIN params
    THEN [params EXCEPT ![key] = Append(@, value)]
    ELSE [k \in (DOMAIN params) \cup {key} |->
            IF k = key THEN <<value>> ELSE params[k]]

(***************************************************************************)
(* The pattern matcher.                                                    *)
(***************************************************************************)
\* isUnescaped: the reserved characters, prohibited from param names
isUnescaped(r) ==
    r \in {"!", "#", "$", "&", "'", "(", ")", "*", "+", ",", "/", ":", ";",
           "=", "?", "@", "[", "]"}

\* isParamRune: whether the rune is allowed in a pattern :param name
\* (the backquote rune is written "BACKQUOTE": a string cannot hold it)
isParamRune(r) ==
    IF r \in {"%", "-", ".", "<", ">", "\\", "^", "BACKQUOTE", "{", "|", "}", "~"}
    THEN FALSE
    ELSE ~isUnescaped(r)

\* the loop of captureName: the index after the last name rune (1-based)
RECURSIVE captureNameEnd(_, _)
captureNameEnd(pattern, i) ==
    IF i <= Len(pattern) /\ isParamRune(pattern[i])
    THEN captureNameEnd(pattern, i + 1)
    ELSE i

\* captureName: the name starting at index i, the next index, the next rune
captureName(pattern, i) ==
    LET e == captureNameEnd(pattern, i)
    IN [name |-> SubSeq(pattern, i, e - 1),
        i    |-> e,
        next |-> IF e <= Len(pattern) THEN pattern[e] ELSE ZeroRune]

\* the loop of captureValue stopping at the end mark only
RECURSIVE captureValueEndPastSlash(_, _, _)
captureValueEndPastSlash(path, j, endMark) ==
    IF j <= Len(path) /\ path[j] # endMark
    THEN captureValueEndPastSlash(path, j + 1, endMark)
    ELSE j

\* the loop of captureValue: the index after the last value rune (1-based)
RECURSIVE captureValueEnd(_, _, _)
captureValueEnd(path, j, endMark) ==
    IF j <= Len(path) /\ path[j] # endMark /\ path[j] # "/"
    THEN captureValueEnd(path, j + 1, endMark)
    ELSE j

\* captureValue: the value starting at index j and the next index
captureValue(path, j, endMark) ==
    LET e == captureValueEnd(path, j, endMark)
    IN [value |-> SubSeq(path, j, e - 1), j |-> e]

\* the result triple of pathMatch
MatchResult(isMatch, runeCount, params) ==
    [isMatch |-> isMatch, runeCount |-> runeCount, params |-> params]

\* the loop of pathMatch with the leaf check applied to every pattern
RECURSIVE pathMatchLoopNoTree(_, _, _, _, _, _)
pathMatchLoopNoTree(rPattern, rPath, i, j, runeCount, params) ==
    LET n == Len(rPattern)
        m == Len(rPath)
    IN IF i <= n
       THEN IF j > m
            THEN MatchResult(FALSE, runeCount, NoParams)
            ELSE IF rPattern[i] = ":"
            THEN LET nm == captureName(rPattern, i + 1)
                     vl == captureValue(rPath, j, nm.next)
                 IN pathMatchLoopNoTree(rPattern, rPath, nm.i, vl.j, runeCount,
                                        ParamsAdd(params, <<":">> \o nm.name, vl.value))
            ELSE IF rPattern[i] = rPath[j]
            THEN pathMatchLoopNoTree(rPattern, rPath, i + 1, j + 1, runeCount + 1, params)
            ELSE MatchResult(FALSE, runeCount, NoParams)
       ELSE IF j # m + 1
            THEN MatchResult(FALSE, runeCount, NoParams)
            ELSE MatchResult(TRUE, runeCount, params)

\* the loop of pathMatch without the leaf check: every pattern is a prefix
RECURSIVE pathMatchLoopNoLeaf(_, _, _, _, _, _)
pathMatchLoopNoLeaf(rPattern, rPath, i, j, runeCount, params) ==
    LET n == Len(rPattern)
        m == Len(rPath)
    IN IF i <= n
       THEN IF j > m
            THEN MatchResult(FALSE, runeCount, NoParams)
            ELSE IF rPattern[i] = ":"
            THEN LET nm == captureName(rPattern, i + 1)
                     vl == captureValue(rPath, j, nm.next)
                 IN pathMatchLoopNoLeaf(rPattern, rPath, nm.i, vl.j, runeCount,
                                        ParamsAdd(params, <<":">> \o nm.name, vl.value))
            ELSE IF rPattern[i] = rPath[j]
            THEN pathMatchLoopNoLeaf(rPattern, rPath, i + 1, j + 1, runeCount + 1, params)
            ELSE MatchResult(FALSE, runeCount, NoParams)
       ELSE MatchResult(TRUE, runeCount, params)

\* the loop of pathMatch counting the runes of a placeholder as matched
RECURSIVE pathMatchLoopCountsNames(_, _, _, _, _, _)
pathMatchLoopCountsNames(rPattern, rPath, i, j, runeCount, params) ==
    LET n == Len(rPattern)
        m == Len(rPath)
    IN IF i <= n
       THEN IF j > m
            THEN MatchResult(FALSE, runeCount, NoParams)
            ELSE IF rPattern[i] = ":"
            THEN LET nm == captureName(rPattern, i + 1)
                     vl == captureValue(rPath, j, nm.next)
                 IN pathMatchLoopCountsNames(rPattern, rPath, nm.i, vl.j,
                                             runeCount + (nm.i - i),
                                             ParamsAdd(params, <<":">> \o nm.name, vl.value))
            ELSE IF rPattern[i] = rPath[j]
            THEN pathMatchLoopCountsNames(rPattern, rPath, i + 1, j + 1, runeCount + 1, params)
            ELSE MatchResult(FALSE, runeCount, NoParams)
       ELSE IF rPattern[n] = "/"
            THEN MatchResult(TRUE, runeCount, params)
            ELSE IF j # m + 1
            THEN MatchResult(FALSE, runeCount, NoParams)
            ELSE MatchResult(TRUE, runeCount, params)

\* the loop of pathMatch that captures a value at the end of the path
RECURSIVE pathMatchLoopCaptureAtEnd(_, _, _, _, _, _)
pathMatchLoopCaptureAtEnd(rPattern, rPath, i, j, runeCount, params) ==
    LET n == Len(rPattern)
        m == Len(rPath)
    IN IF i <= n
       THEN IF rPattern[i] = ":"
            THEN LET nm == captureName(rPattern, i + 1)
                     vl == captureValue(rPath, j, nm.next)
                 IN pathMatchLoopCaptureAtEnd(rPattern, rPath, nm.i, vl.j, runeCount,
                                              ParamsAdd(params, <<":">> \o nm.name, vl.value))
            ELSE IF j > m
            THEN MatchResult(FALSE, runeCount, NoParams)
            ELSE IF rPattern[i] = rPath[j]
            THEN pathMatchLoopCaptureAtEnd(rPattern, rPath, i + 1, j + 1, runeCount + 1, params)
            ELSE MatchResult(FALSE, runeCount, NoParams)
       ELSE IF rPattern[n] = "/"
            THEN MatchResult(TRUE, runeCount, params)
            ELSE IF j # m + 1
            THEN MatchResult(FALSE, runeCount, NoParams)
            ELSE MatchResult(TRUE, runeCount, params)

\* the for loop of pathMatch and the checks after it; i and j are 1-based
RECURSIVE pathMatchLoop(_, _, _, _, _, _)
pathMatchLoop(rPattern, rPath, i, j, runeCount, params) ==
    LET n == Len(rPattern)
        m == Len(rPath)
    IN IF i <= n
       THEN IF j > m
            THEN MatchResult(FALSE, runeCount, NoParams)
            ELSE IF rPattern[i] = ":"
            THEN LET nm == captureName(rPattern, i + 1)
                     vl == captureValue(rPath, j, nm.next)
                 IN pathMatchLoop(rPattern, rPath, nm.i, vl.j, runeCount,
                                  ParamsAdd(params, <<":">> \o nm.name, vl.value))
            ELSE IF rPattern[i] = rPath[j]
            THEN pathMatchLoop(rPattern, rPath, i + 1, j + 1, runeCount + 1, params)
            ELSE MatchResult(FALSE, runeCount, NoParams)
       ELSE IF rPattern[n] = "/"
            THEN MatchResult(TRUE, runeCount, params)
            ELSE IF j # m + 1
            THEN MatchResult(FALSE, runeCount, NoParams)
            ELSE MatchResult(TRUE, runeCount, params)

\* pathMatch without the return for a path equal to the pattern
pathMatchNoShortcut(pattern, path) ==
    IF Len(pattern) = 0
    THEN MatchResult(FALSE, 0, NoParams)
    ELSE pathMatchLoop(pattern, path, 1, 1, 0, NoParams)

\* pathMatch: whether the path matches the pattern, how many runes matched
\* directly, and the captured params
pathMatch(pattern, path) ==
    IF Len(pattern) = 0
    THEN MatchResult(FALSE, 0, NoParams)
    ELSE IF pattern = path
    THEN MatchResult(TRUE, Len(pattern), NoParams)
    ELSE pathMatchLoop(pattern, path, 1, 1, 0, NoParams)

\* the request methods the model uses
GET == <<"G", "E", "T">>
POST == <<"P", "O", "S", "T">>
CONNECT == <<"C", "O", "N", "N", "E", "C", "T">>

(***************************************************************************)
(* Canonical paths.                                                        *)
(***************************************************************************)
\* path.Clean, one element: "" and "." are dropped, ".." removes the last
\* element kept so far (none at the root), any other element is kept
CleanElem(stack, elem) ==
    IF elem = <<>> \/ elem = <<".">>
    THEN stack
    ELSE IF elem = <<".", ".">>
    THEN IF Len(stack) = 0 THEN stack ELSE SubSeq(stack, 1, Len(stack) - 1)
    ELSE Append(stack, elem)

\* path.Clean, the scan of a rooted path into the elements it keeps
RECURSIVE CleanScan(_, _, _, _)
CleanScan(p, i, elem, stack) ==
    IF i > Len(p)
    THEN CleanElem(stack, elem)
    ELSE IF p[i] = "/"
    THEN CleanScan(p, i + 1, <<>>, CleanElem(stack, elem))
    ELSE CleanScan(p, i + 1, Append(elem, p[i]), stack)

\* the kept elements, each after a "/"
RECURSIVE CleanJoin(_, _)
CleanJoin(stack, i) ==
    IF i > Len(stack) THEN <<>>
    ELSE <<"/">> \o stack[i] \o CleanJoin(stack, i + 1)

\* path.Clean of a rooted path
PathClean(p) ==
    LET stack == CleanScan(p, 1, <<>>, <<>>)
    IN IF Len(stack) = 0 THEN <<"/">> ELSE CleanJoin(stack, 1)

\* cleanPath returns the canonical path, eliminating . and .. elements
cleanPath(p0) ==
    IF p0 = <<>>
    THEN <<"/">>
    ELSE LET p  == IF p0[1] # "/" THEN <<"/">> \o p0 ELSE p0
             np == PathClean(p)
         IN IF p[Len(p)] = "/" /\ np # <<"/">> THEN np \o <<"/">> ELSE np

(***************************************************************************)
(* Handlers, rules and routes.                                             *)
(***************************************************************************)
\* the nil http.Handler
NilHandler == [kind |-> "nil", target |-> <<>>, code |-> 0]

\* a handler supplied by the caller of a registration
UserHandler(name) == [kind |-> "user", target |-> <<name>>, code |-> 200]

\* http.RedirectHandler(url, code)
RedirectHandler(url, code) == [kind |-> "redirect", target |-> url, code |-> code]

\* http.NotFoundHandler()
NotFoundHandler == [kind |-> "notfound", target |-> <<>>, code |-> 404]

\* NewMethodRule that keeps the method names as they were given
NewMethodRuleAsGiven(methods) == methods

\* NewMethodRule: the method names, upper-cased
NewMethodRule(methods) == [i \in 1..Len(methods) |-> ToUpper(methods[i])]

\* methodRule.Allows: the request's method is one of the rule's names
methodRuleAllows(rule, request) == contains(rule, request.method)

\* NewRoute allocates a Route; implicit is false
NewRoute(pattern, handler, rules) ==
    [pattern |-> pattern, handler |-> handler, implicit |-> FALSE, rules |-> rules]

\* Route.Allows with the loop exited at the first rule, whatever it says
allowsFirstRuleOnly(route, request) ==
    Len(route.rules) = 0 \/ methodRuleAllows(route.rules[1], request)

\* Route.Allows returns true if each of its rules allows the request
allows(route, request) ==
    \A i \in 1..Len(route.rules) : methodRuleAllows(route.rules[i], request)

(***************************************************************************)
(* The registry.                                                           *)
(***************************************************************************)
\* mux.routes[pattern]: the nil slice when the key is absent
RoutesAt(rts, pattern) == IF pattern \in DOMAIN rts THEN rts[pattern] ELSE <<>>

\* the route put in front of the routes of the pattern key
AppendRouteInFront(rts, pattern, route) ==
    [k \in (DOMAIN rts) \cup {pattern} |->
        IF k = pattern THEN <<route>> \o RoutesAt(rts, pattern) ELSE rts[k]]

\* mux.routes[pattern] = append(mux.routes[pattern], route)
AppendRoute(rts, pattern, route) ==
    [k \in (DOMAIN rts) \cup {pattern} |->
        IF k = pattern THEN Append(RoutesAt(rts, pattern), route) ELSE rts[k]]

\* hasImplicitRoute that never finds the implicit route
hasImplicitRouteNever(rts, pattern) == FALSE

\* hasImplicitRoute: whether the pattern key holds an implicit route
hasImplicitRoute(rts, pattern) ==
    \E i \in 1..Len(RoutesAt(rts, pattern)) : RoutesAt(rts, pattern)[i].implicit

\* the state of a mux after a call and whether the call panicked
MuxState(rts, hosts, panicked) ==
    [routes |-> rts, anyHosts |-> hosts, panicked |-> panicked]

\* the implicit redirect route whose target keeps the hostname
ImplicitRouteKeepsHost(pattern) ==
    [pattern |-> pattern, handler |-> RedirectHandler(pattern, 301),
     implicit |-> TRUE, rules |-> <<>>]

\* the implicit /tree -> /tree/ redirect route of a tree pattern
ImplicitRoute(pattern) ==
    LET target == IF pattern[1] # "/"
                  THEN SubSeq(pattern, IndexSlash(pattern), Len(pattern))
                  ELSE pattern
    IN [pattern |-> pattern, handler |-> RedirectHandler(target, 301),
        implicit |-> TRUE, rules |-> <<>>]

\* addRouteStore whose implicit redirect takes over the rules of the tree route
addRouteStoreRulesKept(mux, pattern, route) ==
    LET r1    == AppendRoute(mux.routes, pattern, route)
        hosts == IF ~mux.anyHosts /\ Len(pattern) > 0 /\ pattern[1] # "/"
                 THEN TRUE ELSE mux.anyHosts
        n     == Len(pattern)
        leaf  == SubSeq(pattern, 1, n - 1)
        r2    == IF n > 1 /\ pattern[n] = "/" /\ ~hasImplicitRoute(r1, leaf)
                 THEN AppendRoute(r1, leaf,
                                  [ImplicitRoute(pattern) EXCEPT !.rules = route.rules])
                 ELSE r1
    IN MuxState(r2, hosts, FALSE)

\* addRouteStore that does not note the hostname of a pattern
addRouteStoreNoHosts(mux, pattern, route) ==
    LET r1    == AppendRoute(mux.routes, pattern, route)
        n     == Len(pattern)
        leaf  == SubSeq(pattern, 1, n - 1)
        r2    == IF n > 1 /\ pattern[n] = "/" /\ ~hasImplicitRoute(r1, leaf)
                 THEN AppendRoute(r1, leaf, ImplicitRoute(pattern))
                 ELSE r1
    IN MuxState(r2, mux.anyHosts, FALSE)

\* the part of addRoute after the two panics: stores the route, notes a
\* hostname, and inserts the implicit redirect of a tree that has none yet
addRouteStore(mux, pattern, route) ==
    LET r1    == AppendRoute(mux.routes, pattern, route)
        hosts == IF ~mux.anyHosts /\ Len(pattern) > 0 /\ pattern[1] # "/"
                 THEN TRUE ELSE mux.anyHosts
        n     == Len(pattern)
        leaf  == SubSeq(pattern, 1, n - 1)
        r2    == IF n > 1 /\ pattern[n] = "/" /\ ~hasImplicitRoute(r1, leaf)
                 THEN AppendRoute(r1, leaf, ImplicitRoute(pattern))
                 ELSE r1
    IN MuxState(r2, hosts, FALSE)

\* addRoute that stores the route before it checks the pattern and the handler
addRouteStoreFirst(mux, pattern, route) ==
    LET stored == addRouteStore(mux, pattern, route)
    IN IF route.pattern = <<>> \/ route.handler = NilHandler
       THEN MuxState(stored.routes, stored.anyHosts, TRUE)
       ELSE stored

\* addRoute that also panics on a pattern that does not begin with "/"
addRouteStrict(mux, pattern, route) ==
    IF pattern = <<>>
    THEN MuxState(mux.routes, mux.anyHosts, TRUE)
    ELSE IF pattern[1] # "/"
    THEN MuxState(mux.routes, mux.anyHosts, TRUE)
    ELSE IF route.handler = NilHandler
    THEN MuxState(mux.routes, mux.anyHosts, TRUE)
    ELSE addRouteStore(mux, pattern, route)

\* addRoute: panics on an empty pattern or a nil handler, leaving the mux as
\* it was; otherwise stores the route and, for a tree, its implicit redirect
addRoute(mux, pattern, route) ==
    IF route.pattern = <<>>
    THEN MuxState(mux.routes, mux.anyHosts, TRUE)
    ELSE IF route.handler = NilHandler
    THEN MuxState(mux.routes, mux.anyHosts, TRUE)
    ELSE addRouteStore(mux, pattern, route)

(***************************************************************************)
(* The match resolver.                                                     *)
(***************************************************************************)
\* the best match so far: handler, reportPattern, params and n, the number
\* of runes matched by the best match
Best(handler, reportPattern, params, n) ==
    [handler |-> handler, reportPattern |-> reportPattern, params |-> params, n |-> n]

\* the state of match before its loop
NoBest == Best(NilHandler, <<>>, NoParams, 0)

\* matchStep that prefers explicit routes without comparing the rune counts
matchStepNoTieTest(best, route, runeCount, parameters) ==
    LET b1 == IF best.handler = NilHandler \/ runeCount > best.n
              THEN Best(route.handler, route.pattern, parameters, runeCount)
              ELSE best
    IN IF ~route.implicit
       THEN Best(route.handler, route.pattern, parameters, b1.n)
       ELSE b1

\* matchStep without the preference for explicit routes
matchStepNoExplicit(best, route, runeCount, parameters) ==
    IF best.handler = NilHandler \/ runeCount > best.n
    THEN Best(route.handler, route.pattern, parameters, runeCount)
    ELSE best

\* the body of match's inner loop for a route that allows the request:
\* prefer longer matches, then explicit routes
matchStep(best, route, runeCount, parameters) ==
    LET b1 == IF best.handler = NilHandler \/ runeCount > best.n
              THEN Best(route.handler, route.pattern, parameters, runeCount)
              ELSE best
    IN IF runeCount = b1.n /\ ~route.implicit
       THEN Best(route.handler, route.pattern, parameters, b1.n)
       ELSE b1

\* match's inner loop is recursive over the routes of one key
RECURSIVE matchRoutes(_, _, _, _, _, _)

\* matchRoutes that leaves the loop at the first route that rejects the request
matchRoutesStopAtRejected(request, rs, i, runeCount, parameters, best) ==
    IF i > Len(rs)
    THEN best
    ELSE IF ~allows(rs[i], request)
    THEN best
    ELSE matchRoutes(request, rs, i + 1, runeCount, parameters,
                     matchStep(best, rs[i], runeCount, parameters))

\* match's inner loop over the routes of one matching pattern key
matchRoutes(request, rs, i, runeCount, parameters, best) ==
    IF i > Len(rs)
    THEN best
    ELSE IF ~allows(rs[i], request)
    THEN matchRoutes(request, rs, i + 1, runeCount, parameters, best)
    ELSE matchRoutes(request, rs, i + 1, runeCount, parameters,
                     matchStep(best, rs[i], runeCount, parameters))

\* match's outer loop over the pattern keys, in the order the map yields them
RECURSIVE matchKeys(_, _, _, _, _, _)
matchKeys(rts, request, path, order, k, best) ==
    IF k > Len(order)
    THEN best
    ELSE LET pm == pathMatch(order[k], path)
         IN IF ~pm.isMatch
            THEN matchKeys(rts, request, path, order, k + 1, best)
            ELSE matchKeys(rts, request, path, order, k + 1,
                           matchRoutes(request, rts[order[k]], 1,
                                       pm.runeCount, pm.params, best))

\* match that leaves its loop after the first pattern key
matchFirstKey(rts, request, path, order) ==
    LET first == IF order = <<>> THEN <<>> ELSE <<order[1]>>
        best == matchKeys(rts, request, path, first, 1, NoBest)
    IN [handler |-> best.handler, pattern |-> best.reportPattern,
        params |-> best.params]

\* match finds the route that most closely matches the request
match(rts, request, path, order) ==
    LET best == matchKeys(rts, request, path, order, 1, NoBest)
    IN [handler |-> best.handler, pattern |-> best.reportPattern,
        params |-> best.params]

\* the sequences that hold each element of the set once
RECURSIVE Orders(_)
Orders(S) ==
    IF S = {} THEN {<<>>}
    ELSE UNION {{<<x>> \o o : o \in Orders(S \ {x})} : x \in S}

\* the orders in which `range mux.routes` can yield the keys.  A key whose
\* pattern the path does not match is skipped without touching the loop's
\* state, so the orders are taken over the matching keys.
rangeOrders(rts, path) ==
    Orders({k \in DOMAIN rts : pathMatch(k, path).isMatch})

\* ServeMux.handler with the generic patterns tried before the host-specific
handlerGenericFirst(mux, request, path, hostOrder, pathOrder) ==
    LET g == match(mux.routes, request, path, pathOrder)
        h == IF g.handler = NilHandler /\ mux.anyHosts
             THEN match(mux.routes, request, request.host \o path, hostOrder)
             ELSE g
    IN IF h.handler = NilHandler
       THEN [handler |-> NotFoundHandler, pattern |-> <<>>, params |-> NoParams]
       ELSE h

\* ServeMux.handler that returns what match returned, found or not
handlerNoFallback(mux, request, path, hostOrder, pathOrder) ==
    LET h == IF mux.anyHosts
             THEN match(mux.routes, request, request.host \o path, hostOrder)
             ELSE [handler |-> NilHandler, pattern |-> <<>>, params |-> NoParams]
    IN IF h.handler = NilHandler
       THEN match(mux.routes, request, path, pathOrder)
       ELSE h

\* ServeMux.handler: host-specific patterns take precedence over generic
\* patterns; a NotFoundHandler and the empty pattern if no route matches
handler(mux, request, path, hostOrder, pathOrder) ==
    LET h == IF mux.anyHosts
             THEN match(mux.routes, request, request.host \o path, hostOrder)
             ELSE [handler |-> NilHandler, pattern |-> <<>>, params |-> NoParams]
        g == IF h.handler = NilHandler
             THEN match(mux.routes, request, path, pathOrder)
             ELSE h
    IN IF g.handler = NilHandler
       THEN [handler |-> NotFoundHandler, pattern |-> <<>>, params |-> NoParams]
       ELSE g

\* ServeMux.Handler without the canonical path: the request path as given
muxHandlerAsGiven(mux, request, hostOrder, pathOrder) ==
    LET h == handler(mux, request, request.path, hostOrder, pathOrder)
    IN [handler |-> h.handler, pattern |-> h.pattern]

\* ServeMux.Handler: a redirect to the canonical path if the path is not
\* canonical (except for CONNECT), else the matched handler; always with the
\* pattern matched by the canonical path.  The request URL is its path.
muxHandler(mux, request, hostOrder, pathOrder) ==
    LET cleanedPath == cleanPath(request.path)
    IN IF request.method # CONNECT /\ cleanedPath # request.path
       THEN [handler |-> RedirectHandler(cleanedPath, 301),
             pattern |-> handler(mux, request, cleanedPath, hostOrder, pathOrder).pattern]
       ELSE LET h == handler(mux, request, request.path, hostOrder, pathOrder)
            IN [handler |-> h.handler, pattern |-> h.pattern]

\* the path that ServeMux.Handler resolves for the request
ResolvedPath(request) ==
    IF request.method # CONNECT
    THEN cleanPath(request.path)
    ELSE request.path

(***************************************************************************)
(* The calls the model makes.                                              *)
(***************************************************************************)
\* the patterns registered: the empty pattern, leaves, trees, a capture, the
\* root and host-specific patterns
Patterns ==
    { <<>>,
      <<"/">>,
      <<"/", "a">>,
      <<"/", "a", "/">>,
      <<"/", ":", "x">>,
      <<"d", "/", "a">>,
      <<"d", "/", "a", "/">> }

\* the handlers registered
Handlers == {NilHandler, UserHandler("h")}

\* the rule lists registered: none (Handle), one method rule (Get), or two
\* rules that together allow POST only
RuleLists ==
    { <<>>,
      <<NewMethodRule(<<GET>>)>>,
      <<NewMethodRule(<<GET, POST>>), NewMethodRule(<<<<"p", "o", "s", "t">>>>)>> }

\* the requests resolved
Verbs == {GET, POST, CONNECT}
Hosts == { <<>>, <<"d">> }
Paths ==
    { <<"/", "a">>,
      <<"/", "a", "/">>,
      <<"/", "b">>,
      <<"/", "/", "a">>,
      <<"/", "a", "/", ".", "/">> }

Requests == [method : Verbs, host : Hosts, path : Paths]

\* the number of routes of the registry that were registered by a call
RECURSIVE NumExplicitIn(_, _)
NumExplicitIn(rts, keys) ==
    IF keys = {} THEN 0
    ELSE LET k == CHOOSE x \in keys : TRUE
         IN Cardinality({i \in 1..Len(rts[k]) : ~rts[k][i].implicit})
            + NumExplicitIn(rts, keys \ {k})

NumExplicit(rts) == NumExplicitIn(rts, DOMAIN rts)

Mux == [routes |-> routes, anyHosts |-> anyHosts]

(***************************************************************************)
(* Goroutines and the lock of the mux.                                     *)
(***************************************************************************)
\* the goroutines that call HandleRoute, Handler and Route.Methods
Registrars == {"w1", "w2"}
Resolvers == {"r1", "r2"}
Builders == {"m1"}
Procs == Registrars \cup Resolvers \cup Builders

\* the zero sync.RWMutex
Unlocked == [writer |-> "none", readers |-> {}]

\* Lock that does not wait for the readers to leave
CanLockAmongReaders(m) == m.writer = "none"

\* mux.mu.Lock() returns when no goroutine holds the lock for writing or
\* for reading
CanLock(m) == m.writer = "none" /\ m.readers = {}

\* RLock that does not wait for the writer to leave
CanRLockAlways(m) == TRUE

\* mux.mu.RLock() returns when no goroutine holds the lock for writing
CanRLock(m) == m.writer = "none"

\* no goroutine has started a call and the lock is free
NoCalls ==
    /\ mu = Unlocked
    /\ pc = [p \in Procs |-> "start"]
    /\ loc = [p \in Procs |-> <<>>]

(***************************************************************************)
(* The state machine.                                                      *)
(***************************************************************************)
\* NewServeMux
Init ==
    /\ routes = <<>>
    /\ anyHosts = FALSE
    /\ op = "NewServeMux"
    /\ args = <<>>
    /\ out = <<>>
    /\ NoCalls

\* ServeMux.HandleRoute (Handle, Get, Post, ... are this call with their
\* rules).  Registrations are made while the registry holds fewer than
\* MaxRoutes registered routes.
HandleRoute(pattern, h, rules) ==
    /\ NumExplicit(routes) < MaxRoutes
    /\ LET after == addRoute(Mux, pattern, NewRoute(pattern, h, rules))
       IN /\ routes' = after.routes
          /\ anyHosts' = after.anyHosts
          /\ op' = "HandleRoute"
          /\ args' = [pattern |-> pattern, handler |-> h, rules |-> rules]
          /\ out' = [panicked |-> after.panicked]
    /\ UNCHANGED <<mu, pc, loc>>

\* ServeMux.Handler, for each order in which the two calls of match can
\* range over the routes
Handler(request) ==
    /\ \E hostOrder \in rangeOrders(routes, request.host \o ResolvedPath(request)),
          pathOrder \in rangeOrders(routes, ResolvedPath(request)) :
            out' = muxHandler(Mux, request, hostOrder, pathOrder)
    /\ op' = "Handler"
    /\ args' = request
    /\ UNCHANGED <<routes, anyHosts, mu, pc, loc>>

Next ==
    \/ \E pattern \in Patterns, h \in Handlers, rules \in RuleLists :
          HandleRoute(pattern, h, rules)
    \/ \E request \in Requests : Handler(request)

Spec == Init /\ [][Next]_vars

(***************************************************************************)
(* Query strings: url.Values.Encode, which ServeHTTP calls, and            *)
(* url.ParseQuery, by which a handler reads r.URL.Query().                 *)
(***************************************************************************)
\* the byte of a rune, for the runes of the keys the model sorts
RuneCode(r) ==
    CASE r = "%" -> 37 [] r = "&" -> 38 [] r = "." -> 46 [] r = "/" -> 47
      [] r = ":" -> 58 [] r = "=" -> 61 [] r = "a" -> 97 [] r = "b" -> 98
      [] r = "c" -> 99 [] r = "k" -> 107 [] r = "q" -> 113 [] r = "v" -> 118
      [] r = "x" -> 120 [] r = "y" -> 121
      [] OTHER -> 0

\* s < t for strings, byte by byte
RECURSIVE StringLess(_, _)
StringLess(s, t) ==
    IF t = <<>> THEN FALSE
    ELSE IF s = <<>> THEN TRUE
    ELSE IF s[1] = t[1] THEN StringLess(Tail(s), Tail(t))
    ELSE RuneCode(s[1]) < RuneCode(t[1])

\* sort.Strings on the keys of a url.Values
RECURSIVE SortedKeys(_)
SortedKeys(keys) ==
    IF keys = {} THEN <<>>
    ELSE LET least == CHOOSE k \in keys : \A o \in keys \ {k} : StringLess(k, o)
         IN <<least>> \o SortedKeys(keys \ {least})

\* url.QueryEscape on one rune: letters, digits and "-", "_", ".", "~" are
\* kept, a space becomes "+", any other rune its %XX escape
QueryEscapeRune(r) ==
    CASE r = ":" -> <<"%", "3", "A">>
      [] r = "/" -> <<"%", "2", "F">>
      [] r = "&" -> <<"%", "2", "6">>
      [] r = "=" -> <<"%", "3", "D">>
      [] r = "%" -> <<"%", "2", "5">>
      [] r = "+" -> <<"%", "2", "B">>
      [] r = " " -> <<"+">>
      [] OTHER -> <<r>>

\* url.QueryEscape
RECURSIVE QueryEscape(_)
QueryEscape(s) ==
    IF s = <<>> THEN <<>> ELSE QueryEscapeRune(s[1]) \o QueryEscape(Tail(s))

\* url.Values.Encode, the pairs of one key: key=value joined by "&"
RECURSIVE EncodeKey(_, _, _)
EncodeKey(key, values, i) ==
    IF i > Len(values) THEN <<>>
    ELSE (IF i > 1 THEN <<"&">> ELSE <<>>)
            \o QueryEscape(key) \o <<"=">> \o QueryEscape(values[i])
            \o EncodeKey(key, values, i + 1)

\* url.Values.Encode, the keys from the k-th sorted key on
RECURSIVE EncodeFrom(_, _, _)
EncodeFrom(v, keys, k) ==
    IF k > Len(keys) THEN <<>>
    ELSE LET pairs == EncodeKey(keys[k], v[keys[k]], 1)
             rest  == EncodeFrom(v, keys, k + 1)
         IN IF pairs = <<>> THEN rest
            ELSE IF rest = <<>> THEN pairs
            ELSE pairs \o <<"&">> \o rest

\* url.Values.Encode: "URL encoded" form sorted by key
Encode(v) == EncodeFrom(v, SortedKeys(DOMAIN v), 1)

\* the rune of a %XX escape
UnescapeRune(x, y) ==
    CASE <<x, y>> = <<"3", "A">> -> ":"
      [] <<x, y>> = <<"2", "F">> -> "/"
      [] <<x, y>> = <<"2", "6">> -> "&"
      [] <<x, y>> = <<"3", "D">> -> "="
      [] <<x, y>> = <<"2", "5">> -> "%"
      [] <<x, y>> = <<"2", "B">> -> "+"
      [] OTHER -> "?"

\* url.QueryUnescape: %XX is the rune it escapes, "+" a space
RECURSIVE QueryUnescape(_)
QueryUnescape(s) ==
    IF s = <<>> THEN <<>>
    ELSE IF s[1] = "%" /\ Len(s) >= 3
    THEN <<UnescapeRune(s[2], s[3])>> \o QueryUnescape(SubSeq(s, 4, Len(s)))
    ELSE IF s[1] = "+"
    THEN <<" ">> \o QueryUnescape(Tail(s))
    ELSE <<s[1]>> \o QueryUnescape(Tail(s))

\* index of the first rune r of s (1-based), 0 if there is none
RECURSIVE IndexRuneFrom(_, _, _)
IndexRuneFrom(s, r, i) ==
    IF i > Len(s) THEN 0
    ELSE IF s[i] = r THEN i
    ELSE IndexRuneFrom(s, r, i + 1)

\* url.ParseQuery: the query is cut at each "&", an empty piece is skipped,
\* a piece is cut at its first "=" into a key and a value, both unescaped,
\* and the value is appended to the values of the key
RECURSIVE ParseQueryInto(_, _)
ParseQueryInto(query, m) ==
    IF query = <<>> THEN m
    ELSE LET amp   == IndexRuneFrom(query, "&", 1)
             piece == IF amp = 0 THEN query ELSE SubSeq(query, 1, amp - 1)
             rest  == IF amp = 0 THEN <<>> ELSE SubSeq(query, amp + 1, Len(query))
             eq    == IndexRuneFrom(piece, "=", 1)
             key   == IF eq = 0 THEN piece ELSE SubSeq(piece, 1, eq - 1)
             value == IF eq = 0 THEN <<>> ELSE SubSeq(piece, eq + 1, Len(piece))
         IN IF piece = <<>>
            THEN ParseQueryInto(rest, m)
            ELSE ParseQueryInto(rest, ParamsAdd(m, QueryUnescape(key),
                                                QueryUnescape(value)))

\* r.URL.Query() for a raw query
ParseQuery(query) == ParseQueryInto(query, NoParams)

\* url.Values.Get: the first value of the key, "" if there is none
Get(v, key) == IF key \in DOMAIN v /\ Len(v[key]) > 0 THEN v[key][1] ELSE <<>>

(***************************************************************************)
(* The method rule on its own: a rule is built from method names and then  *)
(* asked about request methods.                                            *)
(***************************************************************************)
\* the length of the method name lists given to NewMethodRule
MaxMethods == 2

\* the method names given to NewMethodRule, in several cases
MethodNames ==
    { GET, POST, <<"g", "e", "t">>, <<"P", "o", "s", "t">>, <<"A", "N", "Y">> }

MethodLists == UNION {[1..n -> MethodNames] : n \in 0..MaxMethods}

\* the methods of the requests the rule is asked about
RequestMethods == { GET, POST, CONNECT, <<"g", "e", "t">> }

\* NewMethodRule(methods...)
NewMethodRuleCall(methods) ==
    /\ op' = "NewMethodRule"
    /\ args' = [methods |-> methods, method |-> <<>>]
    /\ out' = [rule |-> NewMethodRule(methods), allowed |-> FALSE]
    /\ UNCHANGED <<routes, anyHosts, mu, pc, loc>>

\* methodRule.Allows(request) on the rule built last
MethodRuleAllowsCall(method) ==
    /\ op' = "methodRule.Allows"
    /\ args' = [methods |-> args.methods, method |-> method]
    /\ out' = [rule |-> out.rule,
               allowed |-> methodRuleAllows(out.rule,
                               [method |-> method, host |-> <<>>, path |-> <<"/">>])]
    /\ UNCHANGED <<routes, anyHosts, mu, pc, loc>>

InitRule ==
    /\ routes = <<>>
    /\ anyHosts = FALSE
    /\ op = "NewMethodRule"
    /\ \E methods \in MethodLists :
          /\ args = [methods |-> methods, method |-> <<>>]
          /\ out = [rule |-> NewMethodRule(methods), allowed |-> FALSE]
    /\ NoCalls

NextRule ==
    \/ \E methods \in MethodLists : NewMethodRuleCall(methods)
    \/ \E method \in RequestMethods : MethodRuleAllowsCall(method)

SpecRule == InitRule /\ [][NextRule]_vars

(***************************************************************************)
(* The matcher on its own: pathMatch is applied to a pattern and a path.   *)
(***************************************************************************)
\* the length of the paths given to pathMatch
MaxPathLen == 5

\* the runes of those paths: the separator, two name runes, the capture mark
\* and a rune that is neither a separator nor allowed in a param name
PathRunes == {"/", "a", "b", ":", "."}

MatchPaths == UNION {[1..k -> PathRunes] : k \in 0..MaxPathLen}

\* the patterns given to pathMatch: leaves and trees, with and without
\* captures, a name captured twice, captures ended by "/", by ".", by ":"
\* and by the end of the pattern, an empty name, and the empty pattern
MatchPatterns ==
    { <<>>,
      <<"/">>,
      <<"/", "a">>,
      <<"/", "a", "/">>,
      <<"/", "a", "/", "a">>,
      <<":", "a">>,
      <<"/", ":", "a">>,
      <<"/", ":", "a", "/">>,
      <<"/", ":", "/">>,
      <<"a", "/", ":", "a", "/">>,
      <<"/", ":", "a", "/", "a">>,
      <<"/", ":", "a", ".">>,
      <<"/", ":", "a", ".", "a">>,
      <<"/", ":", "a", ".", "/">>,
      <<":", "a", "/", ":", "a">>,
      <<":", "a", ".", ":", "a">>,
      <<"/", ":", "a", ":", "a">>,
      <<":", "a", ":", "a", "/">> }

\* pathMatch(pattern, path) on the pattern and the path chosen
PathMatchCall ==
    /\ op = "input"
    /\ op' = "pathMatch"
    /\ out' = pathMatch(args.pattern, args.path)
    /\ UNCHANGED <<routes, anyHosts, args, mu, pc, loc>>

InitMatch ==
    /\ routes = <<>>
    /\ anyHosts = FALSE
    /\ op = "input"
    /\ args \in [pattern : MatchPatterns, path : MatchPaths]
    /\ out = <<>>
    /\ NoCalls

NextMatch == PathMatchCall

SpecMatch == InitMatch /\ [][NextMatch]_vars

(***************************************************************************)
(* Dispatch: routes with placeholders are registered and ServeHTTP is      *)
(* called with requests that carry a query string.                         *)
(***************************************************************************)
\* ServeHTTP with the capture params behind the query of the request
injectParamsBehind(params, rawQuery) ==
    IF DOMAIN params # {}
    THEN rawQuery \o <<"&">> \o Encode(params)
    ELSE rawQuery

\* the r.URL.RawQuery ServeHTTP leaves: the encoded capture params, "&" and
\* the query of the request, when there are capture params
injectParams(params, rawQuery) ==
    IF DOMAIN params # {}
    THEN Encode(params) \o <<"&">> \o rawQuery
    ELSE rawQuery

\* the patterns registered: one placeholder, a tree with a placeholder, two
\* placeholders whose names sort against their order, a host and a
\* placeholder, no placeholder
ServePatterns ==
    { <<"/", ":", "x">>,
      <<"/", ":", "x", "/">>,
      <<"/", ":", "y", "/", ":", "x">>,
      <<"d", "/", ":", "x">>,
      <<"/", "a">> }

\* the requests served: their paths, their queries (none, one that uses
\* the key of a placeholder, one with another key before it), and the
\* request for "*"
ServePaths ==
    { <<"/", "a">>,
      <<"/", "b">>,
      <<"/", "b", "&", "c">>,
      <<"/", "b", "/", "c">>,
      <<"/", "/", "b">> }

RawQueries ==
    { <<>>,
      <<":", "x", "=", "q">>,
      <<"k", "=", "v", "&", "%", "3", "A", "x", "=", "q", "&", ":", "x", "=", "v">> }

ServeRequests ==
    [method : {GET}, host : Hosts, path : ServePaths, rawQuery : RawQueries,
     requestURI : {<<"/">>}]
    \cup [method : {GET}, host : {<<>>}, path : {<<"*">>}, rawQuery : {<<>>},
          requestURI : {<<"*">>}]

\* ServeMux.ServeHTTP: 400 for the request "*"; else the handler and the
\* pattern of Handler, the capture params of the pattern on the path of
\* the request, and the handler called with the request whose RawQuery
\* holds them
ServeHTTP(r) ==
    /\ IF r.requestURI = <<"*">>
       THEN out' = [code |-> 400, handler |-> NilHandler, pattern |-> <<>>,
                    params |-> NoParams, rawQuery |-> r.rawQuery]
       ELSE \E hostOrder \in rangeOrders(routes, r.host \o ResolvedPath(r)),
               pathOrder \in rangeOrders(routes, ResolvedPath(r)) :
               \E h \in {muxHandler(Mux, r, hostOrder, pathOrder)} :
               \E params \in {pathMatch(h.pattern, r.path).params} :
                  out' = [code |-> h.handler.code, handler |-> h.handler,
                          pattern |-> h.pattern, params |-> params,
                          rawQuery |-> injectParams(params, r.rawQuery)]
    /\ op' = "ServeHTTP"
    /\ args' = r
    /\ UNCHANGED <<routes, anyHosts, mu, pc, loc>>

NextServe ==
    \/ \E pattern \in ServePatterns : HandleRoute(pattern, UserHandler("h"), <<>>)
    \/ \E r \in ServeRequests : ServeHTTP(r)

SpecServe == Init /\ [][NextServe]_vars

(***************************************************************************)
(* The registry: patterns with and without a hostname, with and without a *)
(* "/", are registered, and requests are resolved and served in between.  *)
(***************************************************************************)
\* the patterns registered: empty, a name without "/", a leaf, a tree, a
\* hostname with a leaf, with a tree and with the root
RegPatterns ==
    { <<>>,
      <<"a">>,
      <<"/", "a">>,
      <<"/", "a", "/">>,
      <<"d", "/", "a">>,
      <<"d", "/", "a", "/">>,
      <<"d", "/">> }

RegRequests == [method : {GET}, host : Hosts, path : {<<"/", "a">>, <<"/", "a", "/">>}]

RegServeRequests ==
    [method : {GET}, host : Hosts, path : {<<"/", "a">>}, rawQuery : {<<>>},
     requestURI : {<<"/">>}]

NextRegistry ==
    \/ \E pattern \in RegPatterns, h \in Handlers : HandleRoute(pattern, h, <<>>)
    \/ \E request \in RegRequests : Handler(request)
    \/ \E r \in RegServeRequests : ServeHTTP(r)

SpecRegistry == Init /\ [][NextRegistry]_vars

(***************************************************************************)
(* Concurrent calls: each registrar makes one call of HandleRoute, each    *)
(* resolver one call of ServeMux.handler, each builder one call of         *)
(* Route.Methods on a route that HandleRoute returned.  A step is one      *)
(* access to the lock or to the registry.                                  *)
(***************************************************************************)
\* the patterns the registrars register: the empty pattern, which panics,
\* and a tree with a hostname
ConcPatterns == { <<>>, <<"d", "/", "a", "/">> }

\* the requests the resolvers resolve
ConcRequests ==
    { [method |-> GET, host |-> <<"d">>, path |-> <<"/", "a", "/">>],
      [method |-> GET, host |-> <<"d">>, path |-> <<"/", "a">>] }

\* the variables a step of a goroutine leaves alone besides the registry
Call(self, label, locals) ==
    /\ pc' = [pc EXCEPT ![self] = label]
    /\ loc' = [loc EXCEPT ![self] = locals]
    /\ UNCHANGED <<op, args, out>>

\* HandleRoute: route := NewRoute(pattern, handler, rules...), then addRoute
HandleRouteCall(self, pattern, h, rules) ==
    /\ pc[self] = "start"
    /\ Call(self, "Lock", [pattern |-> pattern, route |-> NewRoute(pattern, h, rules),
                           slot |-> <<>>, panicked |-> FALSE])
    /\ UNCHANGED <<routes, anyHosts, mu>>

\* addRoute: mux.mu.Lock()
addRouteLock(self) ==
    /\ pc[self] = "Lock"
    /\ CanLock(mu)
    /\ mu' = [mu EXCEPT !.writer = self]
    /\ Call(self, "check", loc[self])
    /\ UNCHANGED <<routes, anyHosts>>

\* addRoute whose Unlock is not deferred: a panic leaves the lock held
addRouteCheckNoDefer(self) ==
    /\ pc[self] = "check"
    /\ IF loc[self].route.pattern = <<>> \/ loc[self].route.handler = NilHandler
       THEN Call(self, "done", [loc[self] EXCEPT !.panicked = TRUE])
       ELSE Call(self, "append", loc[self])
    /\ UNCHANGED <<routes, anyHosts, mu>>

\* addRoute: the panics on an empty pattern and on a nil handler
addRouteCheck(self) ==
    /\ pc[self] = "check"
    /\ IF loc[self].route.pattern = <<>> \/ loc[self].route.handler = NilHandler
       THEN Call(self, "Unlock", [loc[self] EXCEPT !.panicked = TRUE])
       ELSE Call(self, "append", loc[self])
    /\ UNCHANGED <<routes, anyHosts, mu>>

\* addRoute: mux.routes[pattern] = append(mux.routes[pattern], route)
addRouteAppend(self) ==
    /\ pc[self] = "append"
    /\ routes' = AppendRoute(routes, loc[self].pattern, loc[self].route)
    /\ Call(self, "anyHosts",
            [loc[self] EXCEPT !.slot = <<loc[self].pattern,
                                         Len(RoutesAt(routes, loc[self].pattern)) + 1>>])
    /\ UNCHANGED <<anyHosts, mu>>

\* addRoute: if registering the first pattern with a hostname
addRouteAnyHosts(self) ==
    /\ pc[self] = "anyHosts"
    /\ anyHosts' = IF ~anyHosts /\ Len(loc[self].pattern) > 0
                       /\ loc[self].pattern[1] # "/"
                   THEN TRUE ELSE anyHosts
    /\ Call(self, "implicit", loc[self])
    /\ UNCHANGED <<routes, mu>>

\* addRoute: the implicit redirect of a tree pattern that has none yet
addRouteImplicit(self) ==
    /\ pc[self] = "implicit"
    /\ LET pattern == loc[self].pattern
           n       == Len(pattern)
           leaf    == SubSeq(pattern, 1, n - 1)
       IN routes' = IF n > 1 /\ pattern[n] = "/" /\ ~hasImplicitRoute(routes, leaf)
                    THEN AppendRoute(routes, leaf, ImplicitRoute(pattern))
                    ELSE routes
    /\ Call(self, "Unlock", loc[self])
    /\ UNCHANGED <<anyHosts, mu>>

\* addRoute: the deferred mux.mu.Unlock(), on return and on panic
addRouteUnlock(self) ==
    /\ pc[self] = "Unlock"
    /\ mu' = [mu EXCEPT !.writer = "none"]
    /\ Call(self, "done", loc[self])
    /\ UNCHANGED <<routes, anyHosts>>

\* ServeMux.handler(request, path) is called
handlerCall(self, request) ==
    /\ pc[self] = "start"
    /\ Call(self, "RLock", [request |-> request, path |-> request.path,
                            handler |-> NilHandler, pattern |-> <<>>,
                            panicked |-> FALSE])
    /\ UNCHANGED <<routes, anyHosts, mu>>

\* handler: mux.mu.RLock()
handlerRLock(self) ==
    /\ pc[self] = "RLock"
    /\ CanRLock(mu)
    /\ mu' = [mu EXCEPT !.readers = @ \cup {self}]
    /\ Call(self, "hosts", loc[self])
    /\ UNCHANGED <<routes, anyHosts>>

\* Route.Methods writes route.rules under no lock.  A call of match that
\* reads the rules of a route while Methods is writing them is a data race:
\* it can read the rules as they were, read them with the new rule, or read
\* a slice half written and panic.
Racing(path) ==
    {m \in Builders : pc[m] = "write" /\ pathMatch(loc[m].slot[1], path).isMatch}

\* the registries a call of match can read for the path
RoutesRead(path) ==
    {routes} \cup
    {[routes EXCEPT ![loc[m].slot[1]][loc[m].slot[2]].rules =
          Append(loc[m].rules, NewMethodRule(loc[m].methods))] : m \in Racing(path)}

\* handler: host-specific patterns
handlerHosts(self) ==
    /\ pc[self] = "hosts"
    /\ IF anyHosts
       THEN LET path == loc[self].request.host \o loc[self].path
            IN \/ \E rts \in RoutesRead(path), order \in rangeOrders(routes, path) :
                  \E m \in {match(rts, loc[self].request, path, order)} :
                     Call(self, "generic", [loc[self] EXCEPT !.handler = m.handler,
                                                             !.pattern = m.pattern])
               \/ /\ Racing(path) # {}
                  /\ Call(self, "RUnlock", [loc[self] EXCEPT !.panicked = TRUE])
       ELSE Call(self, "generic", loc[self])
    /\ UNCHANGED <<routes, anyHosts, mu>>

\* handler: generic patterns, and the NotFoundHandler if no handler is found
handlerGeneric(self) ==
    /\ pc[self] = "generic"
    /\ IF loc[self].handler = NilHandler
       THEN LET path == loc[self].path
            IN \/ \E rts \in RoutesRead(path), order \in rangeOrders(routes, path) :
                  \E m \in {match(rts, loc[self].request, path, order)} :
                     IF m.handler = NilHandler
                     THEN Call(self, "RUnlock",
                               [loc[self] EXCEPT !.handler = NotFoundHandler,
                                                 !.pattern = <<>>])
                     ELSE Call(self, "RUnlock",
                               [loc[self] EXCEPT !.handler = m.handler,
                                                 !.pattern = m.pattern])
               \/ /\ Racing(path) # {}
                  /\ Call(self, "RUnlock", [loc[self] EXCEPT !.panicked = TRUE])
       ELSE Call(self, "RUnlock", loc[self])
    /\ UNCHANGED <<routes, anyHosts, mu>>

\* handler: the deferred mux.mu.RUnlock()
handlerRUnlock(self) ==
    /\ pc[self] = "RUnlock"
    /\ mu' = [mu EXCEPT !.readers = @ \ {self}]
    /\ Call(self, "done", loc[self])
    /\ UNCHANGED <<routes, anyHosts>>

\* the routes HandleRoute has returned: those stored by a registrar whose
\* call is over, each as <<pattern key, index under the key>> (loc.slot
\* stands for the *Route the registrar holds)
ReturnedRoutes ==
    {loc[w].slot : w \in {x \in Registrars : pc[x] = "done" /\ ~loc[x].panicked}}

\* Route.Methods(methods...) is called on a route HandleRoute returned
MethodsCall(self, slot, methods) ==
    /\ pc[self] = "start"
    /\ slot \in ReturnedRoutes
    /\ Call(self, "read", [slot |-> slot, methods |-> methods, rules |-> <<>>])
    /\ UNCHANGED <<routes, anyHosts, mu>>

\* Methods: append(route.rules, NewMethodRule(methods...)) reads route.rules
MethodsRead(self) ==
    /\ pc[self] = "read"
    /\ Call(self, "write",
            [loc[self] EXCEPT !.rules = routes[loc[self].slot[1]][loc[self].slot[2]].rules])
    /\ UNCHANGED <<routes, anyHosts, mu>>

\* Methods: route.rules = the rules read and the new rule
MethodsWrite(self) ==
    /\ pc[self] = "write"
    /\ routes' = [routes EXCEPT ![loc[self].slot[1]][loc[self].slot[2]].rules =
                      Append(loc[self].rules, NewMethodRule(loc[self].methods))]
    /\ Call(self, "done", loc[self])
    /\ UNCHANGED <<anyHosts, mu>>

InitConc ==
    /\ routes = <<>>
    /\ anyHosts = FALSE
    /\ op = "go"
    /\ args = <<>>
    /\ out = <<>>
    /\ NoCalls

NextConc ==
    \/ \E self \in Registrars :
          \/ \E pattern \in ConcPatterns : HandleRouteCall(self, pattern, UserHandler("h"), <<>>)
          \/ addRouteLock(self)
          \/ addRouteCheck(self)
          \/ addRouteAppend(self)
          \/ addRouteAnyHosts(self)
          \/ addRouteImplicit(self)
          \/ addRouteUnlock(self)
    \/ \E self \in Resolvers :
          \/ \E request \in ConcRequests : handlerCall(self, request)
          \/ handlerRLock(self)
          \/ handlerHosts(self)
          \/ handlerGeneric(self)
          \/ handlerRUnlock(self)
    \/ \E self \in Builders :
          \/ \E slot \in ReturnedRoutes : MethodsCall(self, slot, <<POST>>)
          \/ MethodsRead(self)
          \/ MethodsWrite(self)

SpecConc == InitConc /\ [][NextConc]_vars

\* the steps of a call once it is made: a goroutine that can run is run
\* (the Go scheduler), and one blocked in Lock or RLock is woken when the
\* lock is released
StepOf(self) ==
    \/ addRouteLock(self)
    \/ addRouteCheck(self)
    \/ addRouteAppend(self)
    \/ addRouteAnyHosts(self)
    \/ addRouteImplicit(self)
    \/ addRouteUnlock(self)
    \/ handlerRLock(self)
    \/ handlerHosts(self)
    \/ handlerGeneric(self)
    \/ handlerRUnlock(self)
    \/ MethodsRead(self)
    \/ MethodsWrite(self)

\* concurrent calls under fair scheduling of the calls that were made
SpecConcFair == SpecConc /\ \A self \in Procs : WF_vars(StepOf(self))

(***************************************************************************)
(* Properties.  After a call of Handler, args is the request and out the   *)
(* handler and the pattern returned.                                       *)
(***************************************************************************)
\* the path Handler resolved for the last request
Resolved == ResolvedPath(args)

\* the request path was canonical (or the method CONNECT): Handler returned
\* the handler of the route, not a redirect to the canonical path
IsCanonical == Resolved = args.path

\* the routes of the registry, each as <<pattern key, index under the key>>
Slots == UNION {{<<k, i>> : i \in 1..Len(routes[k])} : k \in DOMAIN routes}

RouteOf(c) == routes[c[1]][c[2]]

\* every rule of the list names the method
RulesAdmit(rules, method) ==
    \A r \in 1..Len(rules) : \E j \in 1..Len(rules[r]) : rules[r][j] = method

\* the routes whose pattern key matches the path and whose rules all allow
\* the last request
Candidates(path) ==
    {c \in Slots : /\ pathMatch(c[1], path).isMatch
                   /\ RulesAdmit(RouteOf(c).rules, args.method)}

\* the literal match count of a route's pattern key on the path
Count(c, path) == pathMatch(c[1], path).runeCount

\* the last call returned this route: its pattern, and its handler unless
\* the handler returned is the redirect to the canonical path
Returned(c) ==
    /\ RouteOf(c).pattern = out.pattern
    /\ IsCanonical => RouteOf(c).handler = out.handler

\* the strings the resolver matches for the last request: hostname + path
\* if the registry is host-aware, and the path
HostPath == args.host \o Resolved

PassPaths == IF anyHosts THEN {HostPath, Resolved} ELSE {Resolved}

\* the host-specific pass does not decide the last request
NoHostMatch == (anyHosts /\ args.host # <<>>) => Candidates(HostPath) = {}

\* no explicit candidate under another key than the path itself matches
\* every rune of the path literally
NoOtherExplicitTie ==
    \A c \in Candidates(Resolved) :
        (c[1] # Resolved /\ ~RouteOf(c).implicit) => Count(c, Resolved) < Len(Resolved)

\* the explicit routes under the key that allow the last request
ExplicitAt(key) ==
    {c \in Candidates(key) : c[1] = key /\ ~RouteOf(c).implicit}

\* the number of implicit routes under the key
NumImplicit(key) ==
    Cardinality({i \in 1..Len(RoutesAt(routes, key)) : routes[key][i].implicit})

\* the tree pattern of a leaf key
TreeOf(key) == key \o <<"/">>

\* C1: if some route matches a string the resolver tries and allows the
\* request, the route returned is a candidate for one of these strings with
\* the maximum literal match count among the candidates for that string.
C1_MaxLiteralCount ==
    op = "Handler" =>
        ((\E pth \in PassPaths : Candidates(pth) # {}) =>
            \E pth \in PassPaths : \E c \in Candidates(pth) :
                /\ Returned(c)
                /\ \A d \in Candidates(pth) : Count(d, pth) <= Count(c, pth))

\* a resolution that returned the candidate with the higher count of two
C1_Witness ==
    /\ op = "Handler"
    /\ IsCanonical
    /\ \E c \in Candidates(Resolved), d \in Candidates(Resolved) :
          /\ Returned(c)
          /\ c[1] # d[1]
          /\ ~RouteOf(c).implicit /\ ~RouteOf(d).implicit
          /\ Count(d, Resolved) < Count(c, Resolved)

\* C2: a resolution returns an implicit redirect only if no explicit
\* candidate has the same literal match count: on a tie the explicit route
\* is returned, in whatever order the routes were registered and scanned.
C2_ExplicitBeatsImplicit ==
    (op = "Handler" /\ IsCanonical /\ out.handler.kind = "redirect") =>
        \E pth \in PassPaths : \E c \in Candidates(pth) :
            /\ Returned(c)
            /\ RouteOf(c).implicit
            /\ \A d \in Candidates(pth) :
                  Count(d, pth) = Count(c, pth) => RouteOf(d).implicit

\* the tree was registered before the leaf, both allow the request, and the
\* explicit leaf route is returned
C2_Witness ==
    /\ op = "Handler"
    /\ IsCanonical
    /\ ~anyHosts
    /\ Len(RoutesAt(routes, Resolved)) = 2
    /\ routes[Resolved][1].implicit
    /\ ~routes[Resolved][2].implicit
    /\ <<Resolved, 2>> \in Candidates(Resolved)
    /\ out.pattern = Resolved
    /\ out.handler = routes[Resolved][2].handler

\* C3: if the registry is host-aware and some admissible route matches
\* hostname + path, the route returned is one of those routes.
C3_HostFirst ==
    (op = "Handler" /\ anyHosts /\ Candidates(HostPath) # {}) =>
        \E c \in Candidates(HostPath) : Returned(c)

\* a host-specific and a generic pattern both match, the host-specific one
\* is returned
C3_Witness ==
    /\ op = "Handler"
    /\ anyHosts
    /\ IsCanonical
    /\ args.host # <<>>
    /\ Candidates(HostPath) # {}
    /\ Candidates(Resolved) # {}
    /\ \E c \in Candidates(HostPath) : Returned(c) /\ c[1][1] # "/"

\* C4: the leaf key of every explicitly registered tree pattern holds
\* exactly one implicit route.
C4_OneImplicit ==
    \A c \in Slots :
        LET k == c[1]
        IN (Len(k) > 1 /\ k[Len(k)] = "/" /\ ~RouteOf(c).implicit) =>
              NumImplicit(SubSeq(k, 1, Len(k) - 1)) = 1

\* a tree registered twice, and an explicit route under its leaf key
C4_Witness ==
    \E k \in DOMAIN routes :
        /\ Len(k) > 1 /\ k[Len(k)] = "/"
        /\ Len(routes[k]) = 2
        /\ ~routes[k][1].implicit /\ ~routes[k][2].implicit
        /\ NumImplicit(SubSeq(k, 1, Len(k) - 1)) = 1

\* C5: Handler never returns a nil handler; if no route matches and allows
\* the request, the pattern is empty, the handler for a canonical path is
\* the not-found handler, and no params are captured with the pattern.
C5_NotFound ==
    op = "Handler" =>
        /\ out.handler # NilHandler
        /\ (\A pth \in PassPaths : Candidates(pth) = {}) =>
              /\ out.pattern = <<>>
              /\ IsCanonical => out.handler = NotFoundHandler
              /\ pathMatch(out.pattern, args.path).params = NoParams

\* a registry with routes, none of which matches and allows the request
C5_Witness ==
    /\ op = "Handler"
    /\ IsCanonical
    /\ DOMAIN routes # {}
    /\ \A pth \in PassPaths : Candidates(pth) = {}
    /\ out.handler = NotFoundHandler

\* C6: the route returned matches and every one of its rules allows the
\* request, and a route that matches and whose rules all allow the request
\* makes the resolution succeed; when every matching route has a rejecting
\* rule the result is the empty pattern.
C6_RulesAdmit ==
    op = "Handler" =>
        /\ out.pattern # <<>> =>
              \E pth \in PassPaths : \E c \in Slots :
                  /\ pathMatch(c[1], pth).isMatch
                  /\ Returned(c)
                  /\ RulesAdmit(RouteOf(c).rules, args.method)
        /\ (\E pth \in PassPaths : \E c \in Slots :
                /\ pathMatch(c[1], pth).isMatch
                /\ RulesAdmit(RouteOf(c).rules, args.method))
              => out.pattern # <<>>

\* the only pattern that matches has a rule that rejects the method: the
\* result is not-found with the empty pattern
C6_Witness ==
    /\ op = "Handler"
    /\ IsCanonical
    /\ \E c \in Slots :
          /\ pathMatch(c[1], Resolved).isMatch
          /\ Len(RouteOf(c).rules) = 2
          /\ RulesAdmit(<<RouteOf(c).rules[1]>>, args.method)
          /\ ~RulesAdmit(RouteOf(c).rules, args.method)
    /\ out.pattern = <<>>
    /\ out.handler = NotFoundHandler

\* C7 (as amended): a method rule allows a request iff the request's method
\* equals one of the names given to NewMethodRule, upper-cased; the name ANY
\* is a name like the others.
C7_MethodRuleMembership ==
    op = "methodRule.Allows" =>
        (out.allowed <=>
            \E i \in 1..Len(args.methods) : ToUpper(args.methods[i]) = args.method)

\* a rule built from a lower-case name allows the upper-case method
C7_Witness ==
    /\ op = "methodRule.Allows"
    /\ out.allowed
    /\ \A i \in 1..Len(args.methods) : args.methods[i] # args.method

\* C7 as stated: a method rule allows a request iff the method is one of
\* the upper-cased names or the rule contains the name ANY.
C7_AnyAllowsAll ==
    op = "methodRule.Allows" =>
        (out.allowed <=>
            \/ \E i \in 1..Len(args.methods) : ToUpper(args.methods[i]) = args.method
            \/ \E i \in 1..Len(args.methods) : ToUpper(args.methods[i]) = <<"A", "N", "Y">>)

\* C8: implicit routes carry no rules; a request for the leaf path of a
\* registered tree pattern, with any method, resolves to the implicit
\* redirect (status 301) and reports the tree pattern, when no explicit
\* route ties with it and no host-specific route matches.
C8_ImplicitIgnoresRules ==
    /\ \A c \in Slots : RouteOf(c).implicit => RouteOf(c).rules = <<>>
    /\ (/\ op = "Handler"
        /\ IsCanonical
        /\ \E c \in Slots : c[1] = TreeOf(Resolved) /\ ~RouteOf(c).implicit
        /\ ExplicitAt(Resolved) = {}
        /\ NoOtherExplicitTie
        /\ NoHostMatch)
       => /\ out.pattern = TreeOf(Resolved)
          /\ out.handler.kind = "redirect"
          /\ out.handler.code = 301

\* a tree whose rules reject the method, and the request for its leaf path
\* is redirected
C8_Witness ==
    /\ op = "Handler"
    /\ IsCanonical
    /\ \E c \in Slots :
          /\ c[1] = TreeOf(Resolved)
          /\ ~RouteOf(c).implicit
          /\ ~RulesAdmit(RouteOf(c).rules, args.method)
    /\ \A c \in Slots : c[1] = TreeOf(Resolved) => RouteOf(c).rules # <<>>
    /\ out.pattern = TreeOf(Resolved)
    /\ out.handler.kind = "redirect"

\* C9: when a leaf key holds an explicit route with rules and an implicit
\* redirect, a request for the leaf path resolves to the explicit route if
\* its rules allow the method and to the implicit redirect (the tree
\* pattern, 301) otherwise, never to not-found.
C9_LeafOverridesRedirect ==
    (/\ op = "Handler"
     /\ IsCanonical
     /\ NumImplicit(Resolved) > 0
     /\ \E c \in Slots : c[1] = Resolved /\ ~RouteOf(c).implicit
     /\ NoOtherExplicitTie
     /\ NoHostMatch)
    => IF ExplicitAt(Resolved) # {}
       THEN /\ out.pattern = Resolved
            /\ out.handler.kind = "user"
       ELSE /\ out.pattern = TreeOf(Resolved)
            /\ out.handler.kind = "redirect"
            /\ out.handler.code = 301

\* the explicit leaf route was registered before the tree and rejects the
\* method: the request falls back to the implicit redirect
C9_Witness ==
    /\ op = "Handler"
    /\ IsCanonical
    /\ Len(RoutesAt(routes, Resolved)) = 2
    /\ ~routes[Resolved][1].implicit
    /\ routes[Resolved][1].rules # <<>>
    /\ routes[Resolved][2].implicit
    /\ ExplicitAt(Resolved) = {}
    /\ out.pattern = TreeOf(Resolved)
    /\ out.handler.kind = "redirect"

\* C10: a registration with an empty pattern or a nil handler panics and
\* leaves the routes and the host-aware flag as they were.
C10_PanicLeavesRegistry ==
    [][(op' = "HandleRoute" /\ (args'.pattern = <<>> \/ args'.handler = NilHandler))
          => (out'.panicked /\ routes' = routes /\ anyHosts' = anyHosts)]_vars

\* a registration that panicked on a registry that holds routes
C10_Witness ==
    /\ op = "HandleRoute"
    /\ out.panicked
    /\ args.pattern # <<>>
    /\ args.handler = NilHandler
    /\ DOMAIN routes # {}

(***************************************************************************)
(* Properties of pathMatch.  After PathMatchCall, args is the pattern and  *)
(* the path and out the result.                                            *)
(***************************************************************************)
\* C11: a path identical to a non-empty pattern matches it with a literal
\* match count equal to the number of runes of the pattern and with no
\* captured params, also when the pattern holds capture placeholders
C11_IdenticalPathMatches ==
    (op = "pathMatch" /\ args.pattern # <<>> /\ args.path = args.pattern)
        => /\ out.isMatch
           /\ out.runeCount = Len(args.pattern)
           /\ DOMAIN out.params = {}

\* a pattern with a placeholder was matched against itself
C11_Witness ==
    /\ op = "pathMatch"
    /\ args.pattern = <<"/", ":", "a", "/">>
    /\ args.path = args.pattern
    /\ out.isMatch
    /\ out.runeCount = 4
    /\ DOMAIN out.params = {}

\* the pattern is a /tree/ pattern, a /leaf pattern
IsTree(pattern) == pattern # <<>> /\ pattern[Len(pattern)] = "/"
IsLeaf(pattern) == pattern # <<>> /\ pattern[Len(pattern)] # "/"

\* the pattern holds a capture placeholder
HasCapture(pattern) == \E i \in 1..Len(pattern) : pattern[i] = ":"

\* the first k runes of the path
Prefix(path, k) == SubSeq(path, 1, k)

\* the path matches the tree pattern exactly up to the end of the pattern:
\* it matches and no shorter prefix of it does
ExactBase(pattern, base) ==
    /\ pathMatch(pattern, base).isMatch
    /\ Len(base) > 0 => ~pathMatch(pattern, Prefix(base, Len(base) - 1)).isMatch

\* C12 as first stated: a path made of a path that matches a tree pattern
\* exactly up to the end of the pattern and of any suffix matches with the
\* count and the params of the path without the suffix
C12_SuffixSameResult ==
    (op = "pathMatch" /\ IsTree(args.pattern))
        => \A k \in 0..Len(args.path) :
              ExactBase(args.pattern, Prefix(args.path, k))
                  => out = pathMatch(args.pattern, Prefix(args.path, k))

\* C12: a path made of a path that matches a tree pattern exactly up to the
\* end of the pattern and of any suffix matches; it has the count and the
\* params of the path without the suffix unless that path is the pattern
\* itself and the pattern holds a placeholder; the pattern / matches every
\* path that begins with /
C12_TreePrefix ==
    (op = "pathMatch" /\ IsTree(args.pattern))
        => /\ \A k \in 0..Len(args.path) :
                 LET base == Prefix(args.path, k)
                 IN ExactBase(args.pattern, base)
                       => /\ out.isMatch
                          /\ (base # args.pattern \/ ~HasCapture(args.pattern))
                                => out = pathMatch(args.pattern, base)
           /\ (args.pattern = <<"/">> /\ args.path # <<>> /\ args.path[1] = "/")
                 => out.isMatch /\ out.runeCount = 1

\* a tree pattern with a placeholder matched a path longer than the pattern
\* asks for
C12_Witness ==
    /\ op = "pathMatch"
    /\ args.pattern = <<"/", ":", "a", "/">>
    /\ args.path = <<"/", "b", "/", "a">>
    /\ ExactBase(args.pattern, <<"/", "b", "/">>)
    /\ out = MatchResult(TRUE, 2, ParamsAdd(NoParams, <<":", "a">>, <<"b">>))

\* the last placeholder of the pattern runs to the end of the pattern
EndsInCapture(pattern) ==
    \E i \in 1..Len(pattern) :
        pattern[i] = ":" /\ captureNameEnd(pattern, i + 1) = Len(pattern) + 1

\* C13: a leaf pattern matches only a path that ends where the pattern
\* ends: when a prefix of the path matches the pattern and the pattern is
\* exhausted at the end of that prefix (the path goes on with a "/", which
\* ends any capture, or the pattern ends in a literal rune), the path does
\* not match
C13_LeafFullyConsumed ==
    (op = "pathMatch" /\ IsLeaf(args.pattern))
        => \A k \in 0..(Len(args.path) - 1) :
              ( /\ pathMatch(args.pattern, Prefix(args.path, k)).isMatch
                /\ args.path[k + 1] = "/" \/ ~EndsInCapture(args.pattern) )
                  => ~out.isMatch

\* a leaf pattern with a placeholder was given a matching path followed by
\* a slash and more
C13_Witness ==
    /\ op = "pathMatch"
    /\ args.pattern = <<"/", ":", "a">>
    /\ args.path = <<"/", "b", "/", "a">>
    /\ pathMatch(args.pattern, <<"/", "b">>).isMatch
    /\ ~out.isMatch

\* the placeholders of the pattern from index i on, left to right: the key
\* of each (":" and its name) and the rune that follows the name
RECURSIVE PlaceholdersFrom(_, _)
PlaceholdersFrom(pattern, i) ==
    IF i > Len(pattern) THEN <<>>
    ELSE IF pattern[i] = ":"
    THEN LET nm == captureName(pattern, i + 1)
         IN <<[key |-> <<":">> \o nm.name, next |-> nm.next]>>
                \o PlaceholdersFrom(pattern, nm.i)
    ELSE PlaceholdersFrom(pattern, i + 1)

Placeholders(pattern) == PlaceholdersFrom(pattern, 1)

\* which value of its key the p-th placeholder captures: one more than the
\* number of earlier placeholders with the same key
Occurrence(pattern, p) ==
    LET ph == Placeholders(pattern)
    IN 1 + Cardinality({q \in 1..(p - 1) : ph[q].key = ph[p].key})

\* the value recorded for the p-th placeholder of the pattern, <<"none">>
\* if the params hold no such value
ValueOf(pattern, params, p) ==
    LET ph == Placeholders(pattern)
        o  == Occurrence(pattern, p)
    IN IF ph[p].key \in DOMAIN params /\ o <= Len(params[ph[p].key])
       THEN params[ph[p].key][o]
       ELSE <<"none">>

\* the pattern from index i on with each placeholder replaced by the value
\* recorded for it; p counts the placeholders
RECURSIVE Rebuild(_, _, _, _)
Rebuild(pattern, params, i, p) ==
    IF i > Len(pattern) THEN <<>>
    ELSE IF pattern[i] = ":"
    THEN ValueOf(pattern, params, p)
            \o Rebuild(pattern, params, captureNameEnd(pattern, i + 1), p + 1)
    ELSE <<pattern[i]>> \o Rebuild(pattern, params, i + 1, p)

\* C14: a successful match (of a path that is not the pattern itself)
\* records under each name as many values as the pattern has placeholders
\* of that name, in the order of the placeholders: the pattern with each
\* placeholder replaced in that order by the values recorded under its name
\* is the path (a leaf) or the start of the path (a tree)
C14_RepeatedNameKeepsAll ==
    (op = "pathMatch" /\ out.isMatch /\ args.path # args.pattern)
        => LET ph   == Placeholders(args.pattern)
               text == Rebuild(args.pattern, out.params, 1, 1)
           IN /\ DOMAIN out.params = {ph[p].key : p \in 1..Len(ph)}
              /\ \A key \in DOMAIN out.params :
                    Len(out.params[key])
                        = Cardinality({p \in 1..Len(ph) : ph[p].key = key})
              /\ Len(text) <= Len(args.path)
              /\ text = Prefix(args.path, Len(text))
              /\ IsLeaf(args.pattern) => text = args.path

\* a pattern with the name a twice captured two different values
C14_Witness ==
    /\ op = "pathMatch"
    /\ args.pattern = <<":", "a", "/", ":", "a">>
    /\ args.path = <<"a", "/", "b">>
    /\ out.isMatch
    /\ out.params[<<":", "a">>] = << <<"a">>, <<"b">> >>

\* C15: in a successful match (of a path that is not the pattern itself) no
\* captured value holds a "/" and none holds the pattern rune that follows
\* the name of its placeholder
C15_CaptureStopsAtDelimiter ==
    (op = "pathMatch" /\ out.isMatch /\ args.path # args.pattern)
        => LET ph == Placeholders(args.pattern)
           IN \A p \in 1..Len(ph) :
                 LET value == ValueOf(args.pattern, out.params, p)
                 IN /\ value # <<"none">>
                    /\ \A x \in 1..Len(value) :
                          value[x] # "/" /\ value[x] # ph[p].next

\* a placeholder followed by "." captured the runes before the first "."
\* of a path that holds two
C15_Witness ==
    /\ op = "pathMatch"
    /\ args.pattern = <<"/", ":", "a", ".", "/">>
    /\ args.path = <<"/", "b", ".", "/", ".">>
    /\ out.isMatch
    /\ out.params[<<":", "a">>] = << <<"b">> >>

(***************************************************************************)
(* Properties of Handler on paths that are not canonical.                  *)
(***************************************************************************)
\* the patterns that resolving the path for the last request can report,
\* over the orders in which match can range over the routes
PatternsResolving(path) ==
    {handler(Mux, args, path, hostOrder, pathOrder).pattern :
        hostOrder \in rangeOrders(routes, args.host \o path),
        pathOrder \in rangeOrders(routes, path)}

\* C16: for a request other than CONNECT whose path is not canonical,
\* Handler returns the 301 redirect to the canonical path and a pattern
\* that resolving the canonical path reports (empty if it matches no
\* route); the canonical path is canonical, so the request the redirect
\* leads to is not redirected to a canonical path again
C16_CanonicalRedirect ==
    (op = "Handler" /\ args.method # CONNECT /\ cleanPath(args.path) # args.path)
        => LET cleanedPath == cleanPath(args.path)
           IN /\ out.handler = RedirectHandler(cleanedPath, 301)
              /\ out.pattern \in PatternsResolving(cleanedPath)
              /\ Candidates(cleanedPath) = {} /\ NoHostMatch => out.pattern = <<>>
              /\ cleanPath(cleanedPath) = cleanedPath
              /\ \A hostOrder \in rangeOrders(routes, args.host \o cleanedPath),
                    pathOrder \in rangeOrders(routes, cleanedPath) :
                    LET next == muxHandler(Mux, [args EXCEPT !.path = cleanedPath],
                                           hostOrder, pathOrder)
                        h    == handler(Mux, args, cleanedPath, hostOrder, pathOrder)
                    IN next.handler = h.handler /\ next.pattern = h.pattern

\* a request for /a/./ was redirected to /a/ and the pattern of the tree
\* route /a/ was reported
C16_Witness ==
    /\ op = "Handler"
    /\ args.method = GET
    /\ args.path = <<"/", "a", "/", ".", "/">>
    /\ out.handler = RedirectHandler(<<"/", "a", "/">>, 301)
    /\ out.pattern = <<"/", "a", "/">>
    /\ \E c \in Slots : c[1] = <<"/", "a", "/">> /\ ~RouteOf(c).implicit

(***************************************************************************)
(* Properties of ServeHTTP.  After ServeHTTP, args is the request as it    *)
(* came and out.rawQuery the RawQuery the handler was called with.         *)
(***************************************************************************)
\* the values of the key in a url.Values
ValuesAt(v, key) == IF key \in DOMAIN v THEN v[key] ELSE <<>>

\* C17: when ServeHTTP has capture params, the query the handler reads
\* holds under each captured key (":" and the name) the captured values
\* first, the first of them being what Get returns, and then the values
\* the query of the request had under that key; every other key of the
\* request's query keeps its values
C17_ParamsBeforeQuery ==
    (op = "ServeHTTP" /\ out.code # 400 /\ DOMAIN out.params # {})
        => LET before == ParseQuery(args.rawQuery)
               after  == ParseQuery(out.rawQuery)
           IN /\ DOMAIN after = DOMAIN out.params \cup DOMAIN before
              /\ \A key \in DOMAIN out.params :
                    /\ key[1] = ":"
                    /\ Get(after, key) = out.params[key][1]
                    /\ after[key] = out.params[key] \o ValuesAt(before, key)
              /\ \A key \in DOMAIN before \ DOMAIN out.params :
                    after[key] = before[key]

\* a request for /b&c with the query k=v&%3Ax=q&:x=v was served by the
\* route /:x: the handler reads b&c first under :x, then q and v
C17_Witness ==
    /\ op = "ServeHTTP"
    /\ args.path = <<"/", "b", "&", "c">>
    /\ out.pattern = <<"/", ":", "x">>
    /\ out.handler = UserHandler("h")
    /\ ValuesAt(ParseQuery(args.rawQuery), <<":", "x">>) = << <<"q">>, <<"v">> >>
    /\ ValuesAt(ParseQuery(out.rawQuery), <<":", "x">>)
          = << <<"b", "&", "c">>, <<"q">>, <<"v">> >>
    /\ ValuesAt(ParseQuery(out.rawQuery), <<"k">>) = << <<"v">> >>

(***************************************************************************)
(* Properties of concurrent calls.                                         *)
(***************************************************************************)
\* the resolver is inside its read section: between RLock and RUnlock
Inside(r) == pc[r] \in {"hosts", "generic", "RUnlock"}

\* the registrar holds the lock: between Lock and Unlock
Holding(w) == pc[w] \in {"check", "append", "anyHosts", "implicit", "Unlock"}

\* the registrar has stored its route and not yet made the other changes of
\* its registration
Halfway(w) == pc[w] \in {"anyHosts", "implicit"}

\* every key of a tree pattern with a registered route has an implicit
\* redirect under its leaf key
TreesHaveRedirect ==
    \A k \in DOMAIN routes :
        (/\ Len(k) > 1
         /\ k[Len(k)] = "/"
         /\ \E i \in 1..Len(routes[k]) : ~routes[k][i].implicit)
            => LET leaf == SubSeq(k, 1, Len(k) - 1)
               IN /\ leaf \in DOMAIN routes
                  /\ \E i \in 1..Len(routes[leaf]) : routes[leaf][i].implicit

\* anyHosts is set exactly when a key with a hostname is registered
HostFlagInStep == anyHosts <=> \E k \in DOMAIN routes : k[1] # "/"

\* C18: while a resolver is inside its read section the registry is not in
\* an intermediate state: no registration is halfway, every registered
\* tree route has its implicit redirect, and anyHosts agrees with the keys
C18_NoIntermediateState ==
    \A r \in Resolvers :
        Inside(r) => /\ \A w \in Registrars : ~Halfway(w)
                     /\ TreesHaveRedirect
                     /\ HostFlagInStep

\* a resolver is inside its read section on a registry that holds a
\* registered tree, while another registration of the tree waits for the
\* lock
C18_Witness ==
    /\ \E r \in Resolvers : Inside(r)
    /\ \E w \in Registrars : pc[w] = "Lock" /\ loc[w].pattern = <<"d", "/", "a", "/">>
    /\ <<"d", "/", "a", "/">> \in DOMAIN routes
    /\ anyHosts

\* C19: at most one registrar holds the lock and no resolver is inside its
\* read section while one does (several resolvers can be inside at once:
\* C19_Witness)
C19_WriterExcludesAll ==
    /\ Cardinality({w \in Registrars : Holding(w)}) <= 1
    /\ (\E w \in Registrars : Holding(w)) => \A r \in Resolvers : ~Inside(r)

\* two resolvers are inside their read sections at the same time, on a
\* registry that holds a route, while a registrar waits for the lock
C19_Witness ==
    /\ \A r \in Resolvers : Inside(r)
    /\ Cardinality(Resolvers) >= 2
    /\ DOMAIN routes # {}
    /\ \E w \in Registrars : pc[w] = "Lock"

\* the resolver is at a call of match that reads the rules of the route:
\* the key of the route matches the path of the pass
Evaluates(r, slot) ==
    \/ /\ pc[r] = "hosts"
       /\ anyHosts
       /\ pathMatch(slot[1], loc[r].request.host \o loc[r].path).isMatch
    \/ /\ pc[r] = "generic"
       /\ loc[r].handler = NilHandler
       /\ pathMatch(slot[1], loc[r].path).isMatch

\* C20: no resolver is at a call of match that reads the rules of a route
\* while Route.Methods is between reading and writing the rules of that
\* route
C20_MethodsExcluded ==
    \A m \in Builders, r \in Resolvers :
        ~(pc[m] = "write" /\ Evaluates(r, loc[m].slot))

\* the goroutine has made its call and the call has not returned
Started(p) == pc[p] \notin {"start", "done"}

\* C21: a registration and a resolution that have returned, a panicked
\* registration included, do not hold the lock; and under fair scheduling
\* every registration and every resolution that was started returns
C21_CallsComplete ==
    /\ [](\A w \in Registrars : pc[w] = "done" => mu.writer # w)
    /\ [](\A r \in Resolvers : pc[r] = "done" => r \notin mu.readers)
    /\ \A p \in Registrars \cup Resolvers : Started(p) ~> (pc[p] = "done")

\* a registration has panicked and returned, and a later registration
\* holds the lock
C21_Witness ==
    \E w \in Registrars, v \in Registrars :
        /\ pc[w] = "done" /\ loc[w].panicked
        /\ mu.writer = v /\ Holding(v)

\* two explicit candidates for the path with the same literal match count,
\* the highest among the candidates, the first under the longer pattern
TiedLonger(c, d) ==
    /\ c \in Candidates(Resolved) /\ d \in Candidates(Resolved)
    /\ ~RouteOf(c).implicit /\ ~RouteOf(d).implicit
    /\ Count(c, Resolved) = Count(d, Resolved)
    /\ \A e \in Candidates(Resolved) : Count(e, Resolved) <= Count(c, Resolved)
    /\ Len(c[1]) > Len(d[1])

\* C22: when two explicit routes that allow the request tie on the highest
\* literal match count, the route under the shorter pattern is not the one
\* returned, whatever the order in which the registry is scanned.
C22_LongerPatternWins ==
    (op = "Handler" /\ IsCanonical /\ NoHostMatch) =>
        \A c \in Slots, d \in Slots :
            TiedLonger(c, d) => out.pattern # RouteOf(d).pattern

\* the candidates for the string with the highest literal match count
Top(pth) ==
    {c \in Candidates(pth) : \A d \in Candidates(pth) : Count(d, pth) <= Count(c, pth)}

\* the candidates match can return for the string: the explicit ones among
\* the highest, or all of the highest if none is explicit
Winners(pth) ==
    LET explicit == {c \in Top(pth) : ~RouteOf(c).implicit}
    IN IF explicit # {} THEN explicit ELSE Top(pth)

\* the routes match can return for the string are under one pattern key
Decided(pth) == \A c \in Winners(pth), d \in Winners(pth) : c[1] = d[1]

\* what the resolver returns for the last request under every scan order of
\* its two passes
Resolutions ==
    {handler(Mux, args, Resolved, hostOrder, pathOrder) :
        hostOrder \in rangeOrders(routes, HostPath),
        pathOrder \in rangeOrders(routes, Resolved)}

WinningMatches ==
    {handler(Mux, args, Resolved, hostOrder, pathOrder) :
        hostOrder \in rangeOrders(routes, HostPath),
        pathOrder \in rangeOrders(routes, Resolved)}

\* C24: for a request with a canonical path, the params ServeHTTP injects
\* into the query are those captured by the winning match of the resolver
\* for the pattern it reports; a request with no match gets none.
C24_InjectsWinningParams ==
    (op = "ServeHTTP" /\ out.code # 400 /\ IsCanonical) =>
        /\ \E h \in WinningMatches :
              h.pattern = out.pattern /\ h.params = out.params
        /\ out.pattern = <<>> => out.rawQuery = args.rawQuery

\* the number of runes of the pattern from index i on that are outside its
\* placeholders (a placeholder is the marker and the name after it)
RECURSIVE LiteralsFrom(_, _)
LiteralsFrom(pattern, i) ==
    IF i > Len(pattern) THEN 0
    ELSE IF pattern[i] = ":"
    THEN LiteralsFrom(pattern, captureNameEnd(pattern, i + 1))
    ELSE 1 + LiteralsFrom(pattern, i + 1)

Literals(pattern) == LiteralsFrom(pattern, 1)

\* C25 as stated: on every successful match the literal match count is the
\* number of runes of the pattern outside its placeholders.
C25_CountIsLiterals ==
    (op = "pathMatch" /\ out.isMatch) => out.runeCount = Literals(args.pattern)

\* C25: on a successful match of a path that is not the pattern itself the
\* literal match count is the number of runes of the pattern outside its
\* placeholders; for the pattern itself it is the number of all its runes.
C25_CountIsLiteralsUnlessIdentical ==
    (op = "pathMatch" /\ out.isMatch) =>
        out.runeCount = IF args.path = args.pattern
                        THEN Len(args.pattern)
                        ELSE Literals(args.pattern)

\* a match that captured a value of two runes under a name of one rune,
\* between literals
C25_Witness ==
    /\ op = "pathMatch"
    /\ args.pattern = <<"/", ":", "a", ".", "a">>
    /\ args.path = <<"/", "b", "b", ".", "a">>
    /\ out.isMatch
    /\ out.runeCount = 3

\* the index in the path at which the q-th placeholder of the pattern took
\* its value: the pattern is walked from index i (p counts placeholders) and
\* the path from index j, each earlier placeholder taking up its value
RECURSIVE ValueStart(_, _, _, _, _, _)
ValueStart(pattern, params, i, p, q, j) ==
    IF pattern[i] = ":"
    THEN IF p = q THEN j
         ELSE ValueStart(pattern, params, captureNameEnd(pattern, i + 1), p + 1, q,
                         j + Len(ValueOf(pattern, params, p)))
    ELSE ValueStart(pattern, params, i + 1, p, q, j + 1)

\* the placeholders of the last call's pattern whose value is empty in the
\* params returned
EmptyCaptures ==
    {p \in 1..Len(Placeholders(args.pattern)) :
        ValueOf(args.pattern, out.params, p) = <<>>}

\* the pattern up to the marker of its last placeholder
BeforeLastCapture(pattern) ==
    LET i == CHOOSE k \in 1..Len(pattern) :
                pattern[k] = ":" /\ captureNameEnd(pattern, k + 1) = Len(pattern) + 1
    IN SubSeq(pattern, 1, i - 1)

\* C26 as stated, its last case: a leaf pattern that ends in its only
\* placeholder matches the path that ends where the placeholder begins, and
\* the placeholder binds the empty string.
C26_EmptyTrailingCapture ==
    (/\ op = "pathMatch"
     /\ EndsInCapture(args.pattern)
     /\ Len(Placeholders(args.pattern)) = 1
     /\ args.path = BeforeLastCapture(args.pattern)) =>
        /\ out.isMatch
        /\ ValueOf(args.pattern, out.params, 1) = <<>>

\* C26: a placeholder binds the empty string in a successful match only
\* where the path has a rune at the placeholder's position and that rune is
\* "/" or the delimiter that follows the name; a placeholder at the end of a
\* leaf pattern never binds the empty string, and a path that ends where
\* the only placeholder of the pattern begins does not match.
C26_EmptyCaptureAtDelimiter ==
    (op = "pathMatch" /\ args.path # args.pattern) =>
        /\ out.isMatch =>
              \A p \in EmptyCaptures :
                 LET j == ValueStart(args.pattern, out.params, 1, 1, p, 1)
                 IN /\ j <= Len(args.path)
                    /\ args.path[j] \in {"/", Placeholders(args.pattern)[p].next}
        /\ (EndsInCapture(args.pattern) /\ out.isMatch) =>
              Len(Placeholders(args.pattern)) \notin EmptyCaptures
        /\ (/\ EndsInCapture(args.pattern)
            /\ Len(Placeholders(args.pattern)) = 1
            /\ args.path = BeforeLastCapture(args.pattern)) => ~out.isMatch

\* /:a.a matched /.a with the empty string bound to :a
C26_Witness ==
    /\ op = "pathMatch"
    /\ args.pattern = <<"/", ":", "a", ".", "a">>
    /\ args.path = <<"/", ".", "a">>
    /\ out.isMatch
    /\ EmptyCaptures = {1}

\* the last registration stored its route: the route is the last one under
\* its pattern key
Stored ==
    /\ args.pattern \in DOMAIN routes
    /\ routes[args.pattern][Len(routes[args.pattern])]
          = NewRoute(args.pattern, args.handler, args.rules)

\* C27 as stated: a registration of a pattern without a hostname that does
\* not begin with "/" panics; one of a pattern that begins with "/" or
\* holds a hostname followed by "/" is accepted and stored.
C27_RejectsHostlessNonSlash ==
    (op = "HandleRoute" /\ args.handler # NilHandler /\ args.pattern # <<>>) =>
        IF contains(args.pattern, "/")
        THEN ~out.panicked /\ Stored
        ELSE out.panicked

\* C27: a registration panics only for the empty pattern or the nil
\* handler; every other pattern, with or without "/", is accepted and
\* stored, and one that does not begin with "/" makes the registry
\* host-aware.
C27_AcceptsEveryNonEmptyPattern ==
    op = "HandleRoute" =>
        /\ out.panicked <=> (args.pattern = <<>> \/ args.handler = NilHandler)
        /\ ~out.panicked => (Stored /\ (args.pattern[1] # "/" => anyHosts))

\* a pattern without "/" was registered and stored
C27_Witness ==
    /\ op = "HandleRoute"
    /\ args.pattern = <<"a">>
    /\ ~out.panicked
    /\ Stored
    /\ anyHosts

\* some stored pattern key does not begin with "/"
HostKeyStored == \E k \in DOMAIN routes : k[1] # "/"

\* C28: the host-aware flag is false at first; in every state it is true
\* iff some stored pattern key does not begin with "/"; and no step makes a
\* true flag false.
C28_HostFlag ==
    /\ ~anyHosts
    /\ [](anyHosts <=> HostKeyStored)
    /\ [][anyHosts => anyHosts']_vars

\* the registry is host-aware and a pattern that begins with "/" was
\* registered after the pattern with the hostname
C28_Witness ==
    /\ op = "HandleRoute"
    /\ ~out.panicked
    /\ args.pattern[1] = "/"
    /\ anyHosts
    /\ HostKeyStored

\* the target is the pattern without its hostname: it begins with "/" and
\* the pattern is the target behind a prefix that holds no "/"
IsWithoutHost(target, pattern) ==
    /\ target # <<>> /\ target[1] = "/"
    /\ \E h \in 0..Len(pattern) :
          /\ pattern = SubSeq(pattern, 1, h) \o target
          /\ ~contains(SubSeq(pattern, 1, h), "/")

\* the implicit routes of the registry
ImplicitSlots == {c \in Slots : RouteOf(c).implicit}

\* C29: every implicit route is stored under its pattern without the
\* trailing "/", and its handler redirects with 301 to its pattern without
\* the hostname; a request that Handler resolved to an implicit route
\* reports the tree pattern of the route, not the key it is stored under.
C29_ImplicitRoute ==
    /\ \A c \in ImplicitSlots :
          /\ RouteOf(c).pattern = TreeOf(c[1])
          /\ RouteOf(c).handler.kind = "redirect"
          /\ RouteOf(c).handler.code = 301
          /\ IsWithoutHost(RouteOf(c).handler.target, RouteOf(c).pattern)
    /\ (op = "Handler" /\ IsCanonical /\ out.handler.kind = "redirect") =>
          \E c \in ImplicitSlots :
             /\ c[1] \in PassPaths
             /\ out.handler = RouteOf(c).handler
             /\ out.pattern = TreeOf(c[1])
             /\ out.pattern # c[1]

\* GET http://d/a was resolved to the implicit route of d/a/, which
\* redirects to /a/
C29_Witness ==
    /\ op = "Handler"
    /\ args.host = <<"d">>
    /\ args.path = <<"/", "a">>
    /\ out.pattern = <<"d", "/", "a", "/">>
    /\ out.handler = RedirectHandler(<<"/", "a", "/">>, 301)
    /\ \E c \in ImplicitSlots : c[1] = <<"d", "/", "a">> /\ out.handler = RouteOf(c).handler

\* every route stored before the step is at its key and index after it
RoutesKept ==
    \A k \in DOMAIN routes :
        /\ k \in DOMAIN routes'
        /\ Len(routes[k]) <= Len(routes'[k])
        /\ SubSeq(routes'[k], 1, Len(routes[k])) = routes[k]

\* the step registered the pattern: its route is appended to the slot of
\* the pattern, the slot of a tree pattern's leaf key is unchanged or gains
\* one implicit route, and every other slot is as it was
RegistrationIsLocal ==
    LET P    == args'.pattern
        leaf == SubSeq(P, 1, Len(P) - 1)
    IN /\ P \in DOMAIN routes'
       /\ routes'[P] = Append(RoutesAt(routes, P),
                               NewRoute(P, args'.handler, args'.rules))
       /\ \A k \in (DOMAIN routes') \ {P} :
             IF IsTree(P) /\ k = leaf
             THEN \/ k \in DOMAIN routes /\ routes'[k] = routes[k]
                  \/ /\ Len(routes'[k]) = Len(RoutesAt(routes, k)) + 1
                     /\ routes'[k][Len(routes'[k])].implicit
             ELSE k \in DOMAIN routes /\ routes'[k] = routes[k]

\* C30: no step removes, replaces or moves a stored route; Handler,
\* ServeHTTP and a registration that panics leave the registry as it was;
\* a successful registration appends its route at the end of the slot of
\* its pattern, appends at most one implicit route to the slot of the leaf
\* key, and leaves every other slot unchanged.
C30_AppendOnly ==
    [][/\ RoutesKept
       /\ op' \in {"Handler", "ServeHTTP"} => routes' = routes
       /\ op' = "HandleRoute" =>
             IF out'.panicked THEN routes' = routes ELSE RegistrationIsLocal]_vars

\* a route was appended behind the implicit route of its key, with routes
\* under other keys
C30_Witness ==
    /\ op = "HandleRoute"
    /\ ~out.panicked
    /\ Len(routes[args.pattern]) = 2
    /\ routes[args.pattern][1].implicit
    /\ Stored
    /\ Cardinality(DOMAIN routes) > 1

====
